---- MODULE Spec2Model ----
(***************************************************************************)
(* Model of django_celery_extensions/task.py: the DjangoTask invocation    *)
(* lifecycle (apply / apply_async / apply_async_on_commit, unique-task     *)
(* deduplication through the shared cache, worker callbacks), the result   *)
(* handles (OnCommitAsyncResult, AsyncResultWrapper), the time policy      *)
(* (_compute_eta, _get_time_limit, _get_stale_time_limit) and retry().     *)
(*                                                                         *)
(* Times and durations are natural numbers (seconds).  Python's None is    *)
(* the value None below; every real time, duration and task id is >= 0.    *)
(***************************************************************************)
EXTENDS Integers, Sequences, FiniteSets, TLC

VARIABLES
    task,       \* the task definition (class attributes and app configuration)
    pc,         \* pc[c]: where caller c's invocation stands
    inv,        \* inv[c]: the invocation of caller c (mode, args, options)
    handle,     \* handle[c]: the handle caller c holds
    hooks,      \* hooks[c]: the on_invocation_* callbacks run for c, in order
    err,        \* err[c]: the error raised to caller c ("none" when none)
    cache,      \* the shared dedup cache: key -> task id or None
    rec,        \* rec[t]: the Dispatch Record of task id t and its execution
    foreign,    \* whether a cache.delete has removed another task's entry
    wait,       \* wait[c]: caller c's call of get() on its handle
    tp,         \* inputs and result of one option resolution of _trigger
    rt,         \* inputs and result of one call of retry()
    rq          \* rq[r]: request context r and the calls of the task through it

\* Python's None, for the numeric options (eta, countdown, limits, task ids).
None == -1

\* ------------------------------------------------------------------------
\* Bounds of the model
\* ------------------------------------------------------------------------
\* Largest wall-clock reading of now() drawn for a pure computation.
MaxNow == 1

\* Number of concurrent callers; each makes one invocation.
NumCallers == 2

\* Longest time a caller blocked in get() is followed for.
MaxElapsed == 1

\* Largest number of retries a request has been through when retry() runs.
MaxAttempt == 4

\* Number of request contexts followed, and of calls made through each.
NumRequests == 3

MaxCalls == 2

\* An absent list option (default_retry_delays is None) and a given one.
NoList == [none |-> TRUE, v |-> <<>>]

ListOf(s) == [none |-> FALSE, v |-> s]

\* Python truthiness of a list option: None and [] are falsy.
TruthyList(l) == (~l.none) /\ Len(l.v) > 0

\* Python truthiness of a number-or-None: None and 0 are falsy.
TruthyNum(n) == n # None /\ n # 0

\* Python truthiness of a datetime-or-None: every datetime is truthy.
TruthyTime(t) == t # None

RECURSIVE SumSeq(_)
SumSeq(s) == IF s = <<>> THEN 0 ELSE Head(s) + SumSeq(Tail(s))

\* ------------------------------------------------------------------------
\* Time policy (pure functions of DjangoTask)
\* ------------------------------------------------------------------------
\* _compute_eta with the precedence turned round: a given eta wins over the
\* countdown.
compute_eta_eta_first(eta, countdown, trigger_time) ==
    IF TruthyTime(eta) THEN eta
    ELSE IF countdown # None THEN trigger_time + countdown
    ELSE trigger_time

\* _compute_eta(eta, countdown, trigger_time)
compute_eta(eta, countdown, trigger_time) ==
    IF countdown # None THEN trigger_time + countdown
    ELSE IF TruthyTime(eta) THEN eta
    ELSE trigger_time

\* _get_time_limit(time_limit): explicit, then the task's soft_time_limit,
\* then the application's task_time_limit.
get_time_limit(self, time_limit) ==
    IF time_limit # None THEN time_limit
    ELSE IF self.soft_time_limit # None THEN self.soft_time_limit
    ELSE self.conf_task_time_limit

\* _get_stale_time_limit deriving the list formula from the delay list alone,
\* without asking for autoretry_for.
get_stale_time_limit_list_alone(self, time_limit, stale_time_limit) ==
    IF stale_time_limit # None THEN stale_time_limit
    ELSE IF self.stale_time_limit # None THEN self.stale_time_limit
    ELSE IF time_limit # None /\ TruthyNum(self.max_queue_waiting_time) THEN
        IF TruthyList(self.default_retry_delays) THEN
            (time_limit + self.max_queue_waiting_time)
                * Len(self.default_retry_delays.v) + 1
            + SumSeq(self.default_retry_delays.v)
        ELSE IF self.autoretry_for THEN
            (time_limit + self.max_queue_waiting_time + self.default_retry_delay)
                * self.max_retries
            + time_limit + self.max_queue_waiting_time
        ELSE time_limit + self.max_queue_waiting_time
    ELSE None

\* _get_stale_time_limit(expires, time_limit, stale_time_limit, trigger_time)
get_stale_time_limit(self, time_limit, stale_time_limit) ==
    IF stale_time_limit # None THEN stale_time_limit
    ELSE IF self.stale_time_limit # None THEN self.stale_time_limit
    ELSE IF time_limit # None /\ TruthyNum(self.max_queue_waiting_time) THEN
        IF self.autoretry_for /\ TruthyList(self.default_retry_delays) THEN
            (time_limit + self.max_queue_waiting_time)
                * Len(self.default_retry_delays.v) + 1
            + SumSeq(self.default_retry_delays.v)
        ELSE IF self.autoretry_for THEN
            (time_limit + self.max_queue_waiting_time + self.default_retry_delay)
                * self.max_retries
            + time_limit + self.max_queue_waiting_time
        ELSE time_limit + self.max_queue_waiting_time
    ELSE None

\* An expires option: None, a number of seconds (an int) or a datetime.
NoExpires == [kind |-> "none", v |-> None]

IntExpires(n) == [kind |-> "int", v |-> n]

DatetimeExpires(t) == [kind |-> "datetime", v |-> t]

\* _compute_expires without the task's expires attribute.
compute_expires_explicit_only(self, expires, time_limit, stale_time_limit, trigger_time) ==
    IF expires # NoExpires
    THEN IF expires.kind = "int" THEN DatetimeExpires(trigger_time + expires.v)
         ELSE expires
    ELSE IF stale_time_limit # None /\ time_limit # None
    THEN DatetimeExpires(trigger_time + (stale_time_limit - time_limit))
    ELSE NoExpires

\* _compute_expires(expires, time_limit, stale_time_limit, trigger_time): the
\* explicit option, else the task's expires attribute; an int is a number of
\* seconds after trigger_time, anything else is handed on as it is.
compute_expires(self, expires, time_limit, stale_time_limit, trigger_time) ==
    LET e == IF expires = NoExpires THEN self.expires ELSE expires
    IN  IF e # NoExpires
        THEN IF e.kind = "int" THEN DatetimeExpires(trigger_time + e.v)
             ELSE e
        ELSE IF stale_time_limit # None /\ time_limit # None
        THEN DatetimeExpires(trigger_time + (stale_time_limit - time_limit))
        ELSE NoExpires

\* The options _trigger hands to the dispatch (options.update(...)): the
\* countdown is folded into eta and reset to None.
trigger_options(self, eta, countdown, expires, time_limit, stale_time_limit, trigger_time) ==
    LET tl == get_time_limit(self, time_limit)
        st == get_stale_time_limit(self, tl, stale_time_limit)
    IN  [trigger_time     |-> trigger_time,
         time_limit       |-> tl,
         eta              |-> compute_eta(eta, countdown, trigger_time),
         countdown        |-> None,
         expires          |-> compute_expires(self, expires, tl, st,
                                              trigger_time),
         stale_time_limit |-> st]

\* ------------------------------------------------------------------------
\* Retry scheduler: DjangoTask.retry
\* ------------------------------------------------------------------------
\* Line 472 with the list deciding whenever one is configured, whatever eta
\* or countdown the caller passed.
retry_uses_list_always(self, eta, countdown, default_retry_delays) ==
    TruthyList(default_retry_delays) \/ TruthyList(self.default_retry_delays)

\* Line 472: whether the delay list decides this retry.
retry_uses_list(self, eta, countdown, default_retry_delays) ==
    TruthyList(default_retry_delays)
    \/ (eta = None /\ countdown = None /\ TruthyList(self.default_retry_delays))

\* Line 473: the list used, the argument unless it is None.
retry_list(self, default_retry_delays) ==
    IF default_retry_delays.none THEN self.default_retry_delays
    ELSE default_retry_delays

\* retry(eta, countdown, max_retries, default_retry_delays) of a request that
\* has been retried `retries` times, at wall-clock time `now`.  The result is
\* what is handed to on_task_retry and to celery's Task.retry; `stops` is
\* celery's check retries + 1 > max_retries (None falls back to the task's).
retry(self, retries, eta, countdown, max_retries, default_retry_delays, now) ==
    LET use  == retry_uses_list(self, eta, countdown, default_retry_delays)
        L    == retry_list(self, default_retry_delays).v
        mr   == IF use THEN Len(L) ELSE max_retries
        cd1  == IF use THEN (IF retries < Len(L) THEN L[retries + 1] ELSE None)
                ELSE countdown
        cd2  == IF (~TruthyTime(eta)) /\ cd1 = None THEN self.default_retry_delay
                ELSE cd1
        eta2 == IF ~TruthyTime(eta) THEN now + cd2 ELSE eta
        emr  == IF mr = None THEN self.max_retries ELSE mr
    IN  [eta         |-> eta2,
         countdown   |-> cd2,
         list_delay  |-> use /\ retries < Len(L),
         max_retries |-> mr,
         stops       |-> emr # None /\ retries + 1 > emr]

\* ------------------------------------------------------------------------
\* Invocation lifecycle: state
\* ------------------------------------------------------------------------
Callers == 1 .. NumCallers

\* task_uuid() draws a fresh id for each invocation: caller c's task id is c.
TaskIds == Callers

\* The (args, kwargs) an invocation may carry.
Args == {"a", "b"}

\* default_unique_key_generator: a deterministic hash (uuid5) of the key
\* prefix, the task name and the serialized arguments; equal arguments give
\* equal keys and the key is never empty.  The key is named by its arguments.
default_unique_key_generator(task_args) == <<"key", task_args>>

Keys == {default_unique_key_generator(a) : a \in Args}

\* Python's None as a unique key.
NoKey == <<>>

\* _get_unique_key without its look at the unique flag.
get_unique_key_always(self, task_args) ==
    default_unique_key_generator(task_args)

\* _get_unique_key: None for a task that is not unique.
get_unique_key(self, task_args) ==
    IF self.unique THEN default_unique_key_generator(task_args) ELSE NoKey

Modes == {"apply", "apply_async", "apply_async_on_commit"}

\* The explicit stale_time_limit option an invocation may pass.  The option
\* is drawn for unique tasks only: for the others it decides nothing here.
StaleOptions(self) == IF self.unique THEN {None, 2} ELSE {None}

\* Task definitions of the lifecycle: unique or not, eager application or
\* not, a unique one with or without a task-level stale time limit.  No time
\* limit is configured, so no stale time limit is derivable.
LifeTasks ==
    {d \in [unique : BOOLEAN, always_eager : BOOLEAN,
            soft_time_limit : {None}, conf_task_time_limit : {None},
            stale_time_limit : {None, 2}, max_queue_waiting_time : {None},
            autoretry_for : {FALSE}, default_retry_delays : {NoList},
            default_retry_delay : {180}, max_retries : {3},
            expires : {NoExpires}] :
        d.unique \/ d.stale_time_limit = None}

NoInv == [mode |-> "none", args |-> "a", stale_time_limit |-> None,
          unique_task_id |-> None, tries |-> 0]

NoHandle == [kind |-> "none", result |-> None]

NoRec == [state |-> "none", inline |-> FALSE, overlap |-> None, retries |-> 0,
          hooks |-> <<>>]

NoWait == [st |-> "none", timeout |-> None, passed |-> None, elapsed |-> 0]

NoTp == [done |-> FALSE]

NoRt == [done |-> FALSE]

NoRq == <<>>

NoOptions == [trigger_time |-> None, time_limit |-> None, eta |-> None,
              countdown |-> None, expires |-> NoExpires,
              stale_time_limit |-> None]

NoRetry == [eta |-> None, countdown |-> None, list_delay |-> FALSE,
            max_retries |-> None, stops |-> FALSE]

is_async(c) == inv[c].mode # "apply"

KeyOf(c) == get_unique_key(task, inv[c].args)

lifeVars == <<task, pc, inv, handle, hooks, err, cache, rec, foreign>>

vars == <<task, pc, inv, handle, hooks, err, cache, rec, foreign,
          wait, tp, rt, rq>>

InitLife ==
    /\ pc = [c \in Callers |-> "idle"]
    /\ inv = [c \in Callers |-> NoInv]
    /\ handle = [c \in Callers |-> NoHandle]
    /\ hooks = [c \in Callers |-> <<>>]
    /\ err = [c \in Callers |-> "none"]
    /\ cache = [k \in Keys |-> None]
    /\ rec = [t \in TaskIds |-> NoRec]
    /\ foreign = FALSE
    /\ wait = [c \in Callers |-> NoWait]

Init ==
    /\ task \in LifeTasks
    /\ InitLife
    /\ tp = NoTp
    /\ rt = NoRt
    /\ rq = NoRq

\* ------------------------------------------------------------------------
\* Invocation lifecycle: the caller's side
\* ------------------------------------------------------------------------
\* _get_unique_task_id without its first check: a unique task with no stale
\* time limit goes on as if it had one.
get_unique_task_id_entry_unchecked(self, unique_key, stale_time_limit) ==
    IF unique_key # NoKey /\ ~self.always_eager THEN "reserve" ELSE "skip"

\* The head of _get_unique_task_id, before any cache call: "raise" the
\* CeleryError, go on to cache.add ("reserve"), or return task_id ("skip").
get_unique_task_id_entry(self, unique_key, stale_time_limit) ==
    IF unique_key # NoKey /\ ~TruthyNum(stale_time_limit) THEN "raise"
    ELSE IF unique_key # NoKey /\ ~self.always_eager THEN "reserve"
    ELSE "skip"

\* _trigger up to its first cache call, for invocation i of caller c: the
\* options are resolved at trigger time and the uniqueness resolution begins.
EnterTrigger(c, i) ==
    LET opts == trigger_options(task, None, None, NoExpires, None,
                                i.stale_time_limit, 0)
        r    == get_unique_task_id_entry(task, get_unique_key(task, i.args),
                                         opts.stale_time_limit)
    IN  /\ inv' = [inv EXCEPT ![c] =
                         [i EXCEPT !.stale_time_limit = opts.stale_time_limit]]
        /\ pc' = [pc EXCEPT ![c] = CASE r = "raise"   -> "raised"
                                     [] r = "reserve" -> "reserve"
                                     [] OTHER         -> "dispatch"]
        /\ err' = [err EXCEPT ![c] = IF r = "raise" THEN "CeleryError" ELSE @]

\* _first_apply reserving the dedup key when it registers the commit
\* callback, instead of leaving every cache call to the callback.
Apply_reserves_early(c, mode, task_args, stale_time_limit, in_tx) ==
    /\ pc[c] = "idle"
    /\ \A d \in Callers : d < c => pc[d] # "idle"
    /\ (c = 1) => (task_args = "a")
    /\ LET i == [mode |-> mode, args |-> task_args,
                 stale_time_limit |-> stale_time_limit,
                 unique_task_id |-> None, tries |-> 0]
           k == get_unique_key(task, task_args)
       IN  /\ hooks' = [hooks EXCEPT ![c] = Append(@, "apply")]
           /\ handle' = [handle EXCEPT ![c] =
                            IF mode = "apply_async_on_commit"
                            THEN [kind |-> "deferred", result |-> None] ELSE @]
           /\ IF mode = "apply_async_on_commit" /\ in_tx
              THEN /\ pc' = [pc EXCEPT ![c] = "deferred"]
                   /\ inv' = [inv EXCEPT ![c] = i]
                   /\ cache' = IF k # NoKey /\ cache[k] = None
                               THEN [cache EXCEPT ![k] = c] ELSE cache
                   /\ UNCHANGED err
              ELSE EnterTrigger(c, i) /\ UNCHANGED cache
    /\ UNCHANGED <<task, rec, foreign, wait, tp, rt, rq>>

\* apply / apply_async / apply_async_on_commit -> _first_apply.  Task ids are
\* drawn in the order of the invocations, and the arguments of the first
\* invocation are named "a".  on_invocation_apply runs first.
\* With is_on_commit the Deferred Handle is returned and the trigger is left
\* to transaction.on_commit: registered when a transaction is open (in_tx),
\* run at once when none is.
Apply(c, mode, task_args, stale_time_limit, in_tx) ==
    /\ pc[c] = "idle"
    /\ \A d \in Callers : d < c => pc[d] # "idle"
    /\ (c = 1) => (task_args = "a")
    /\ LET i == [mode |-> mode, args |-> task_args,
                 stale_time_limit |-> stale_time_limit,
                 unique_task_id |-> None, tries |-> 0]
       IN  /\ hooks' = [hooks EXCEPT ![c] = Append(@, "apply")]
           /\ handle' = [handle EXCEPT ![c] =
                            IF mode = "apply_async_on_commit"
                            THEN [kind |-> "deferred", result |-> None] ELSE @]
           /\ IF mode = "apply_async_on_commit" /\ in_tx
              THEN /\ pc' = [pc EXCEPT ![c] = "deferred"]
                   /\ inv' = [inv EXCEPT ![c] = i]
                   /\ UNCHANGED err
              ELSE EnterTrigger(c, i)
    /\ UNCHANGED <<task, cache, rec, foreign, wait, tp, rt, rq>>

\* The enclosing transaction commits: _apply_on_commit runs _trigger.
Commit(c) ==
    /\ pc[c] = "deferred"
    /\ EnterTrigger(c, inv[c])
    /\ UNCHANGED <<task, handle, hooks, cache, rec, foreign,
                   wait, tp, rt, rq>>

\* The enclosing transaction aborts: the registered callback is dropped.
Abort(c) ==
    /\ pc[c] = "deferred"
    /\ pc' = [pc EXCEPT ![c] = "aborted"]
    /\ UNCHANGED <<task, inv, handle, hooks, err, cache, rec,
                   foreign, wait, tp, rt, rq>>

\* cache.add called without its timeout: the entry is stored with the
\* timeout None, which never expires.
Reserve_without_timeout(c) ==
    /\ pc[c] = "reserve"
    /\ IF cache[KeyOf(c)] = None
       THEN /\ cache' = [cache EXCEPT ![KeyOf(c)] = c]
            /\ inv' = [inv EXCEPT ![c].unique_task_id = c,
                                  ![c].tries = @ + 1,
                                  ![c].stale_time_limit = None]
            /\ pc' = [pc EXCEPT ![c] = "dispatch"]
       ELSE /\ pc' = [pc EXCEPT ![c] = "read"]
            /\ inv' = [inv EXCEPT ![c].tries = @ + 1]
            /\ UNCHANGED cache
    /\ UNCHANGED <<task, handle, hooks, err, rec, foreign, wait, tp, rt, rq>>

\* _get_unique_task_id: cache.add(unique_key, task_id, stale_time_limit),
\* atomic set-if-absent; the entry lives for stale_time_limit seconds, the
\* resolved option kept in inv[c].  On success the caller owns the key and
\* returns its own task_id.  inv[c].tries counts the calls of cache.add the
\* resolution has made.
Reserve(c) ==
    /\ pc[c] = "reserve"
    /\ IF cache[KeyOf(c)] = None
       THEN /\ cache' = [cache EXCEPT ![KeyOf(c)] = c]
            /\ inv' = [inv EXCEPT ![c].unique_task_id = c,
                                  ![c].tries = @ + 1]
            /\ pc' = [pc EXCEPT ![c] = "dispatch"]
       ELSE /\ pc' = [pc EXCEPT ![c] = "read"]
            /\ inv' = [inv EXCEPT ![c].tries = @ + 1]
            /\ UNCHANGED cache
    /\ UNCHANGED <<task, handle, hooks, err, rec, foreign, wait, tp, rt, rq>>

\* The commit callback without its set_result: the Deferred Handle stays
\* unbound.
Bound_not_set(c, t) ==
    IF inv[c].mode = "apply_async_on_commit"
    THEN [kind |-> "deferred", result |-> None]
    ELSE [kind |-> "bound", result |-> t]

\* The handle _trigger returns for task id t: an AsyncResultWrapper, bound
\* into the OnCommitAsyncResult (set_result) when the dispatch was deferred.
Bound(c, t) ==
    [kind |-> IF inv[c].mode = "apply_async_on_commit" THEN "deferred"
              ELSE "bound",
     result |-> t]

\* _trigger without its reference branch: every invocation is dispatched.
trigger_branch_always_dispatch(async, unique_task_id, task_id) == "dispatch"

\* The branch of _trigger on the resolved unique_task_id: a reference to the
\* owner's task ("reference") or a dispatch of the caller's own ("dispatch").
trigger_branch(async, unique_task_id, task_id) ==
    IF async /\ unique_task_id # task_id THEN "reference" ELSE "dispatch"

\* The cache read with an absent entry waited for instead of starting the
\* resolution again.
Read_waits(c) ==
    /\ pc[c] = "read"
    /\ LET v == cache[KeyOf(c)]
       IN  IF v = None
           THEN UNCHANGED <<pc, inv, hooks, handle>>
           ELSE /\ inv' = [inv EXCEPT ![c].unique_task_id = v]
                /\ IF trigger_branch(is_async(c), v, c) = "reference"
                   THEN /\ hooks' = [hooks EXCEPT ![c] = Append(@, "unique")]
                        /\ handle' = [handle EXCEPT ![c] = Bound(c, v)]
                        /\ pc' = [pc EXCEPT ![c] = "returned"]
                   ELSE /\ pc' = [pc EXCEPT ![c] = "dispatch"]
                        /\ UNCHANGED <<hooks, handle>>
    /\ UNCHANGED <<task, err, cache, rec, foreign, wait, tp, rt, rq>>

\* _get_unique_task_id after a failed add: cache.get(unique_key).  An absent
\* entry starts the resolution again; a present one is the unique_task_id, and
\* _trigger then returns a reference to it (on_invocation_unique) or goes on
\* to dispatch under the caller's own task id.
Read(c) ==
    /\ pc[c] = "read"
    /\ LET v == cache[KeyOf(c)]
       IN  IF v = None
           THEN /\ pc' = [pc EXCEPT ![c] = "reserve"]
                /\ UNCHANGED <<inv, hooks, handle>>
           ELSE /\ inv' = [inv EXCEPT ![c].unique_task_id = v]
                /\ IF trigger_branch(is_async(c), v, c) = "reference"
                   THEN /\ hooks' = [hooks EXCEPT ![c] = Append(@, "unique")]
                        /\ handle' = [handle EXCEPT ![c] = Bound(c, v)]
                        /\ pc' = [pc EXCEPT ![c] = "returned"]
                   ELSE /\ pc' = [pc EXCEPT ![c] = "dispatch"]
                        /\ UNCHANGED <<hooks, handle>>
    /\ UNCHANGED <<task, err, cache, rec, foreign, wait, tp, rt, rq>>

\* The record runs in the caller's thread: apply() (Task.apply), and
\* apply_async when the application is always eager.
RunsInline(c) == (~is_async(c)) \/ task.always_eager

\* The task id of another invocation whose dedup entry is live under the key
\* of c's invocation, None when there is none.
LiveOwner(c) ==
    IF KeyOf(c) # NoKey /\ cache[KeyOf(c)] # c THEN cache[KeyOf(c)] ELSE None

\* The else branch of _trigger: on_invocation_trigger, then
\* _apply_and_get_wrapped_result sends the task under the caller's own task
\* id.  Sent to the queue, the wrapped AsyncResult is returned (or bound into
\* the Deferred Handle); run inline, Task.apply calls the task at once
\* (__call__: on_task_start) and the caller waits for the run to end.
Dispatch(c) ==
    /\ pc[c] = "dispatch"
    /\ hooks' = [hooks EXCEPT ![c] = Append(@, "trigger")]
    /\ rec' = [rec EXCEPT ![c] =
                 [state |-> IF RunsInline(c) THEN "running" ELSE "queued",
                  inline |-> RunsInline(c),
                  overlap |-> LiveOwner(c),
                  retries |-> 0,
                  hooks |-> IF RunsInline(c) THEN <<"start">> ELSE <<>>]]
    /\ IF RunsInline(c)
       THEN /\ pc' = [pc EXCEPT ![c] = "inline"]
            /\ UNCHANGED handle
       ELSE /\ pc' = [pc EXCEPT ![c] = "returned"]
            /\ handle' = [handle EXCEPT ![c] = Bound(c, c)]
    /\ UNCHANGED <<task, inv, err, cache, foreign, wait, tp, rt, rq>>

\* The send to the broker fails after on_invocation_trigger has run:
\* apply_async logs, closes the old connections and raises the error again.
DispatchFails(c) ==
    /\ pc[c] = "dispatch"
    /\ ~RunsInline(c)
    /\ hooks' = [hooks EXCEPT ![c] = Append(@, "trigger")]
    /\ pc' = [pc EXCEPT ![c] = "raised"]
    /\ err' = [err EXCEPT ![c] = "OperationalError"]
    /\ UNCHANGED <<task, inv, handle, cache, rec, foreign, wait,
                   tp, rt, rq>>

Terminal(t) == rec[t].state \in {"success", "failure"}

\* The end of a run of t.  An inline run ends the caller's wait: Task.apply
\* returns the EagerResult, which _trigger wraps and returns.
Return(t) ==
    IF rec[t].inline
    THEN /\ pc' = [pc EXCEPT ![t] = "returned"]
         /\ handle' = [handle EXCEPT ![t] = Bound(t, t)]
    ELSE UNCHANGED <<pc, handle>>

\* ------------------------------------------------------------------------
\* Invocation lifecycle: the worker's side and the cache
\* ------------------------------------------------------------------------
\* __call__ on a fresh request context: on_task_start, then the task body.
Start(t) ==
    /\ rec[t].state = "queued"
    /\ rec' = [rec EXCEPT ![t].state = "running",
                          ![t].hooks = Append(@, "start")]
    /\ UNCHANGED <<task, pc, inv, handle, hooks, err, cache,
                   foreign, wait, tp, rt, rq>>

\* _clear_unique_key: cache.delete(unique_key) when the task is unique.
clear_unique_key(unique_key, entries) ==
    IF unique_key # NoKey THEN [entries EXCEPT ![unique_key] = None]
    ELSE entries

\* The cache after a terminal observation of execution t, with the record of
\* whether the entry deleted was another task's.
Cleared(t) ==
    LET k == KeyOf(t)
    IN  /\ cache' = clear_unique_key(k, cache)
        /\ foreign' = (foreign \/ (k # NoKey /\ cache[k] \notin {None, t}
                                   /\ cache'[k] = None))

\* on_success: on_task_success, then _clear_unique_key.
Succeed(t) ==
    /\ rec[t].state = "running"
    /\ rec' = [rec EXCEPT ![t].state = "success",
                          ![t].hooks = Append(@, "success")]
    /\ Cleared(t)
    /\ Return(t)
    /\ UNCHANGED <<task, inv, hooks, err, wait, tp, rt, rq>>

\* The on_failure calls an error of attempt rec[t].retries leads to: one for
\* an execution by a worker; for an inline run one for each attempt still
\* open, since the eager Task.retry runs the next attempt inside the call of
\* retry() (S.apply().get()) and the error leaves through each of them.
Failures(t) ==
    [i \in 1 .. (IF rec[t].inline THEN rec[t].retries + 1 ELSE 1) |-> "failure"]

\* on_failure: on_task_failure, then _clear_unique_key.
Fail(t) ==
    /\ rec[t].state = "running"
    /\ rec' = [rec EXCEPT ![t].state = "failure",
                          ![t].hooks = @ \o Failures(t)]
    /\ Cleared(t)
    /\ Return(t)
    /\ UNCHANGED <<task, inv, hooks, err, wait, tp, rt, rq>>

\* The task body ends in self.retry() (called by the body, or by the
\* autoretry_for wrapper, without arguments): on_task_retry is run with the
\* computed eta and celery's Task.retry goes on.  Past max_retries it raises
\* the error and the execution fails (on_failure).  Otherwise the signature
\* of the request is sent again under the same task id with retries + 1:
\* through apply_async with self.request.id set, so through celery's
\* apply_async only (no _first_apply, no cache call), or, for an inline run,
\* through apply with 'retries' in the options, which runs the next attempt
\* at once.
Retry(t) ==
    /\ rec[t].state = "running"
    /\ LET r == retry(task, rec[t].retries, None, None, None, NoList, 0)
       IN  IF r.stops
           THEN /\ rec' = [rec EXCEPT ![t].state = "failure",
                                      ![t].hooks = Append(@, "retry")
                                                   \o Failures(t)]
                /\ Cleared(t)
                /\ Return(t)
           ELSE /\ rec' = [rec EXCEPT
                             ![t].state = IF rec[t].inline THEN "running"
                                          ELSE "queued",
                             ![t].retries = @ + 1,
                             ![t].hooks = IF rec[t].inline
                                          THEN @ \o <<"retry", "start">>
                                          ELSE Append(@, "retry")]
                /\ UNCHANGED <<pc, handle, cache, foreign>>
    /\ UNCHANGED <<task, inv, hooks, err, wait, tp, rt, rq>>

\* The stale time limit the entry under k was added with (its TTL) has
\* elapsed: the cache drops the entry.  An entry added with the timeout None
\* never expires.
Expire(k) ==
    /\ cache[k] # None
    /\ inv[cache[k]].stale_time_limit # None
    /\ cache' = [cache EXCEPT ![k] = None]
    /\ UNCHANGED <<task, pc, inv, handle, hooks, err, rec, foreign, wait,
                   tp, rt, rq>>

\* ------------------------------------------------------------------------
\* Result handles: OnCommitAsyncResult and AsyncResultWrapper
\* ------------------------------------------------------------------------
\* AsyncResult(t).state as the result backend reports it.
AsyncResult_state(t) ==
    CASE rec[t].state = "success" -> "SUCCESS"
      [] rec[t].state = "failure" -> "FAILURE"
      [] OTHER                    -> "PENDING"

\* AsyncResultWrapper: state, successful(), failed(), task_id proxy _result.
Wrapper_state(t) == AsyncResult_state(t)

Wrapper_successful(t) == AsyncResult_state(t) = "SUCCESS"

Wrapper_failed(t) == AsyncResult_state(t) = "FAILURE"

Wrapper_task_id(t) == t

\* OnCommitAsyncResult: each member answers for itself while _result is None
\* and proxies the bound wrapper afterwards.
OnCommit_state(h) ==
    IF h.result = None THEN "WAITING" ELSE Wrapper_state(h.result)

OnCommit_successful(h) ==
    IF h.result = None THEN FALSE ELSE Wrapper_successful(h.result)

OnCommit_failed(h) ==
    IF h.result = None THEN FALSE ELSE Wrapper_failed(h.result)

OnCommit_task_id(h) ==
    IF h.result = None THEN None ELSE Wrapper_task_id(h.result)

\* OnCommitAsyncResult.get without its check of _result.
OnCommit_get_unchecked(h) == "proxy"

\* OnCommitAsyncResult.get: "raise" NotTriggeredCeleryError while _result is
\* None, else the bound wrapper's get ("proxy").
OnCommit_get(h) == IF h.result = None THEN "raise" ELSE "proxy"

\* The timeout AsyncResultWrapper.get hands to _result.get(): the call is
\* self._result.get(), without the caller's arguments.
Wrapper_get_timeout(timeout) == None

\* The timeouts a caller passes to get().
Timeouts == {None, 0, 1}

HoldsHandle(c) == handle[c].kind # "none"

\* The caller calls get(timeout) on the handle it holds.  A Deferred Handle
\* not yet bound raises NotTriggeredCeleryError; otherwise the wrapper calls
\* _result.get() and the caller blocks in it.
Get(c, timeout) ==
    /\ HoldsHandle(c)
    /\ wait[c].st \in {"none", "NotTriggered"}
    /\ IF handle[c].kind = "deferred" /\ OnCommit_get(handle[c]) = "raise"
       THEN wait' = [wait EXCEPT ![c] =
                       [st |-> "NotTriggered", timeout |-> None,
                        passed |-> None, elapsed |-> 0]]
       ELSE wait' = [wait EXCEPT ![c] =
                       [st |-> "blocked", timeout |-> timeout,
                        passed |-> Wrapper_get_timeout(timeout),
                        elapsed |-> 0]]
    /\ UNCHANGED <<task, pc, inv, handle, hooks, err, cache, rec, foreign,
                   tp, rt, rq>>

\* apply_async_and_get_result after its apply_async has returned the handle:
\* result.get(timeout=timeout, propagate=propagate) when timeout is None or
\* positive, else on_invocation_timeout (result.timeout) and TimeoutError.
GetResult(c, timeout) ==
    /\ inv[c].mode = "apply_async"
    /\ handle[c].kind = "bound"
    /\ wait[c].st = "none"
    /\ IF timeout = None \/ timeout > 0
       THEN /\ wait' = [wait EXCEPT ![c] =
                          [st |-> "blocked", timeout |-> timeout,
                           passed |-> Wrapper_get_timeout(timeout),
                           elapsed |-> 0]]
            /\ UNCHANGED hooks
       ELSE /\ wait' = [wait EXCEPT ![c] =
                          [st |-> "TimeoutError", timeout |-> timeout,
                           passed |-> None, elapsed |-> 0]]
            /\ hooks' = [hooks EXCEPT ![c] = Append(@, "timeout")]
    /\ UNCHANGED <<task, pc, inv, handle, err, cache, rec, foreign, tp, rt, rq>>

\* AsyncResultWrapper.get leaves _result.get(): with a TimeoutError once the
\* timeout handed to it has elapsed, which the wrapper catches, reports to
\* on_invocation_timeout (timeout) and raises again; with the result, or the
\* task's own error, once the task is in a terminal state.
GetEnds(c) ==
    /\ wait[c].st = "blocked"
    /\ IF wait[c].passed # None /\ wait[c].elapsed >= wait[c].passed
       THEN /\ wait' = [wait EXCEPT ![c].st = "TimeoutError"]
            /\ hooks' = [hooks EXCEPT ![c] = Append(@, "timeout")]
       ELSE /\ handle[c].result # None
            /\ Terminal(handle[c].result)
            /\ wait' = [wait EXCEPT ![c].st = "done"]
            /\ UNCHANGED hooks
    /\ UNCHANGED <<task, pc, inv, handle, err, cache, rec, foreign, tp, rt, rq>>

\* A second passes for the callers blocked in get().
Tick ==
    /\ \E c \in Callers : wait[c].st = "blocked" /\ wait[c].elapsed < MaxElapsed
    /\ wait' = [c \in Callers |->
                 IF wait[c].st = "blocked" /\ wait[c].elapsed < MaxElapsed
                 THEN [wait[c] EXCEPT !.elapsed = @ + 1] ELSE wait[c]]
    /\ UNCHANGED <<task, pc, inv, handle, hooks, err, cache, rec, foreign,
                   tp, rt, rq>>

Next ==
    \/ \E c \in Callers, m \in Modes, a \in Args, s \in StaleOptions(task),
          x \in BOOLEAN : Apply(c, m, a, s, x)
    \/ \E c \in Callers : Commit(c)
    \/ \E c \in Callers : Abort(c)
    \/ \E c \in Callers : Reserve(c)
    \/ \E c \in Callers : Read(c)
    \/ \E c \in Callers : Dispatch(c)
    \/ \E c \in Callers : DispatchFails(c)
    \/ \E t \in TaskIds : Start(t)
    \/ \E t \in TaskIds : Succeed(t)
    \/ \E t \in TaskIds : Fail(t)
    \/ \E k \in Keys : Expire(k)

Spec == Init /\ [][Next]_vars

\* The lifecycle under the scheduling the program can rely on: a caller's
\* thread goes on with its next cache call or its dispatch, and the cache
\* drops an entry whose timeout has elapsed.  Nothing is assumed of the
\* workers: a queued or running task may be lost and never report.
Fairness ==
    /\ \A c \in Callers : WF_vars(Reserve(c))
    /\ \A c \in Callers : WF_vars(Read(c))
    /\ \A c \in Callers : WF_vars(Dispatch(c) \/ DispatchFails(c))
    /\ \A k \in Keys : WF_vars(Expire(k))

SpecLive == Init /\ [][Next]_vars /\ Fairness

\* ------------------------------------------------------------------------
\* The handles in use: the lifecycle of a unique task with callers that call
\* get() on the handles they hold
\* ------------------------------------------------------------------------
HandleTasks == {d \in LifeTasks : d.unique /\ d.stale_time_limit # None}

InitHandle ==
    /\ task \in HandleTasks
    /\ InitLife
    /\ tp = NoTp
    /\ rt = NoRt
    /\ rq = NoRq

NextHandle ==
    \/ Next
    \/ \E c \in Callers, t \in Timeouts : Get(c, t)
    \/ \E c \in Callers, t \in Timeouts : GetResult(c, t)
    \/ \E c \in Callers : GetEnds(c)
    \/ Tick

SpecHandle == InitHandle /\ [][NextHandle]_vars

\* ------------------------------------------------------------------------
\* The time policy on its own: one option resolution of _trigger
\* ------------------------------------------------------------------------
TimeTasks ==
    [unique : {TRUE}, always_eager : {FALSE},
     soft_time_limit : {None, 45}, conf_task_time_limit : {None, 30},
     stale_time_limit : {None, 7}, max_queue_waiting_time : {None, 0, 5},
     autoretry_for : BOOLEAN,
     default_retry_delays : {NoList, ListOf(<<>>), ListOf(<<10, 20>>)},
     default_retry_delay : {180}, max_retries : {0, 3},
     expires : {NoExpires, IntExpires(40)}]

InitTime ==
    /\ task \in {d \in LifeTasks : d.unique /\ ~d.always_eager
                                    /\ d.stale_time_limit # None}
    /\ InitLife
    /\ rt = NoRt
    /\ rq = NoRq
    /\ tp \in [self : TimeTasks, eta : {None, 100}, countdown : {None, 0, 3},
                expires : {NoExpires, IntExpires(20), DatetimeExpires(300)},
                time_limit : {None, 0, 60}, stale_time_limit : {None, 0, 9},
                trigger_time : 0 .. MaxNow, done : {FALSE},
                options : {NoOptions}]

\* Lines 376-393 of _trigger on the drawn inputs.
ResolveOptions ==
    /\ ~tp.done
    /\ tp' = [tp EXCEPT !.done = TRUE,
                        !.options = trigger_options(tp.self, tp.eta,
                            tp.countdown, tp.expires, tp.time_limit,
                            tp.stale_time_limit, tp.trigger_time)]
    /\ UNCHANGED <<task, pc, inv, handle, hooks, err, cache, rec, foreign,
                   wait, rt, rq>>

NextTime == ResolveOptions

SpecTime == InitTime /\ [][NextTime]_vars

\* ------------------------------------------------------------------------
\* The retry scheduler on its own: one call of retry()
\* ------------------------------------------------------------------------
RetryTasks ==
    [unique : {FALSE}, always_eager : {FALSE},
     soft_time_limit : {None}, conf_task_time_limit : {None},
     stale_time_limit : {None}, max_queue_waiting_time : {None},
     autoretry_for : {TRUE},
     default_retry_delays : {NoList, ListOf(<<>>), ListOf(<<10, 30, 90>>)},
     default_retry_delay : {180}, max_retries : {None, 3},
     expires : {NoExpires}]

InitRetry ==
    /\ task \in {d \in LifeTasks : d.unique /\ ~d.always_eager
                                    /\ d.stale_time_limit # None}
    /\ InitLife
    /\ tp = NoTp
    /\ rq = NoRq
    /\ rt \in [self : RetryTasks, retries : 0 .. MaxAttempt,
                eta : {None, 500}, countdown : {None, 0, 7},
                max_retries : {None, 1, 5},
                default_retry_delays : {NoList, ListOf(<<>>), ListOf(<<2, 4>>)},
                now : 0 .. MaxNow, done : {FALSE}, out : {NoRetry}]

\* retry() on the drawn inputs.
CallRetry ==
    /\ ~rt.done
    /\ rt' = [rt EXCEPT !.done = TRUE,
                        !.out = retry(rt.self, rt.retries, rt.eta,
                            rt.countdown, rt.max_retries,
                            rt.default_retry_delays, rt.now)]
    /\ UNCHANGED <<task, pc, inv, handle, hooks, err, cache, rec, foreign,
                   wait, tp, rq>>

NextRetry == CallRetry

SpecRetry == InitRetry /\ [][NextRetry]_vars

\* ------------------------------------------------------------------------
\* The lifecycle with retries: a unique task whose executions may end in
\* self.retry()
\* ------------------------------------------------------------------------
\* One retry is allowed, by the flat policy (max_retries) or by a delay list
\* of one delay.
WorkerTasks ==
    [unique : {TRUE}, always_eager : {FALSE},
     soft_time_limit : {None}, conf_task_time_limit : {None},
     stale_time_limit : {2}, max_queue_waiting_time : {None},
     autoretry_for : {TRUE},
     default_retry_delays : {NoList, ListOf(<<5>>)},
     default_retry_delay : {180}, max_retries : {1}, expires : {NoExpires}]

InitWorker ==
    /\ task \in WorkerTasks
    /\ InitLife
    /\ tp = NoTp
    /\ rt = NoRt
    /\ rq = NoRq

NextWorker ==
    \/ Next
    \/ \E t \in TaskIds : Retry(t)

SpecWorker == InitWorker /\ [][NextWorker]_vars

\* The same steps for every task definition of the lifecycle: unique or
\* not, in an eager application or not.
SpecAll == Init /\ [][NextWorker]_vars

\* ------------------------------------------------------------------------
\* The task called: DjangoTask.__call__ through a request context
\* ------------------------------------------------------------------------
Requests == 1 .. NumRequests

\* What request_stack.top is when the task is called: nothing ("none"), a
\* context marked called_directly ("direct"), or the context a worker (or
\* Task.apply) pushed for an execution ("worker").
RequestKinds == {"none", "direct", "worker"}

\* __call__ without its check of req._protected.
call_unprotected(req) ==
    IF req.kind \in {"none", "direct"}
    THEN [raise |-> "called directly", protected |-> req.protected,
          start |-> FALSE, run |-> FALSE]
    ELSE [raise |-> "none", protected |-> TRUE, start |-> TRUE, run |-> TRUE]

\* __call__(*args, **kwargs): the CeleryError it raises ("none" when none),
\* req._protected after it, and whether on_task_start and the task body
\* (_start -> run) were run.
call(req) ==
    IF req.kind \in {"none", "direct"}
    THEN [raise |-> "called directly", protected |-> req.protected,
          start |-> FALSE, run |-> FALSE]
    ELSE IF req.protected
    THEN [raise |-> "protected", protected |-> req.protected,
          start |-> FALSE, run |-> FALSE]
    ELSE [raise |-> "none", protected |-> TRUE, start |-> TRUE, run |-> TRUE]

CallTasks == {d \in LifeTasks : d.unique /\ ~d.always_eager
                                  /\ d.stale_time_limit # None}

\* Every context starts unconsumed (Context._protected = 0) and uncalled.
InitCall ==
    /\ task \in CallTasks
    /\ InitLife
    /\ tp = NoTp
    /\ rt = NoRt
    /\ rq \in [Requests -> [kind : RequestKinds, protected : {FALSE},
                              calls : {0}, raised : {<<>>}, starts : {0},
                              runs : {0}]]

\* The task is called with request context r on top of the request stack.
Call(r) ==
    /\ rq[r].calls < MaxCalls
    /\ LET out == call(rq[r])
       IN  rq' = [rq EXCEPT ![r] =
                    [kind      |-> @.kind,
                     protected |-> out.protected,
                     calls     |-> @.calls + 1,
                     raised    |-> IF out.raise = "none" THEN @.raised
                                   ELSE Append(@.raised, out.raise),
                     starts    |-> @.starts + (IF out.start THEN 1 ELSE 0),
                     runs      |-> @.runs + (IF out.run THEN 1 ELSE 0)]]
    /\ UNCHANGED <<task, pc, inv, handle, hooks, err, cache, rec, foreign,
                   wait, tp, rt>>

NextCall == \E r \in Requests : Call(r)

SpecCall == InitCall /\ [][NextCall]_vars

\* ------------------------------------------------------------------------
\* Claims about the invocation lifecycle (checked under Spec)
\* ------------------------------------------------------------------------
\* Caller c's reserve failed and the read returned the owner's task id.
FoundOwner(c) == inv[c].unique_task_id \notin {None, c}

\* C1 as claimed: for the invocations of a unique task with the same
\* arguments, no Dispatch Record is newly created while the dedup entry of
\* another invocation is live under their key (within its TTL window), and
\* every caller that found an owner in the cache holds a handle whose
\* task_id is the owner's.
C1_AsClaimed ==
    /\ \A t \in TaskIds : rec[t].state # "none" => rec[t].overlap = None
    /\ \A c \in Callers :
          FoundOwner(c) /\ pc[c] = "returned" =>
              handle[c].result = inv[c].unique_task_id

C3_AsClaimed == ~foreign

\* No stale time limit resolves for the invocation of caller c: the task is
\* unique, has no task-level default and no time limit to derive one from,
\* and the invocation passes none.
Unresolvable(c) ==
    /\ inv[c].mode # "none"
    /\ task.unique
    /\ task.stale_time_limit = None
    /\ get_time_limit(task, None) = None
    /\ inv[c].stale_time_limit = None

\* C4: an invocation of a unique task for which no stale time limit resolves
\* ends its trigger with the CeleryError (at once, or when the deferred
\* trigger runs at commit): no record is sent, no dedup entry is reserved, no
\* handle is bound and neither on_invocation_trigger nor
\* on_invocation_unique runs -- in an eager application too.
C4_FailsFast ==
    \A c \in Callers :
        Unresolvable(c) =>
            /\ pc[c] \in {"deferred", "aborted", "raised"}
            /\ (pc[c] = "raised" => err[c] = "CeleryError")
            /\ rec[c].state = "none"
            /\ hooks[c] = <<"apply">>
            /\ handle[c].result = None
            /\ \A k \in Keys : cache[k] # c

\* C4 witness: such an invocation has raised, while another invocation of
\* the same task, which passed a stale time limit, holds the dedup entry.
C4_Witness ==
    \E c, d \in Callers :
        /\ Unresolvable(c) /\ pc[c] = "raised" /\ err[c] = "CeleryError"
        /\ inv[d].mode # "none" /\ inv[d].args = inv[c].args
        /\ cache[KeyOf(d)] = d /\ rec[d].state = "queued"

OnCommit(c) == inv[c].mode = "apply_async_on_commit"

\* C5 as claimed: a dispatch deferred in a transaction that aborts sends
\* nothing; one deferred in a transaction that commits ends with exactly one
\* new Dispatch Record or exactly one dedup reference, bound into the
\* Deferred Handle.
C5_AsClaimed ==
    \A c \in Callers :
        OnCommit(c) =>
            /\ (pc[c] = "aborted" =>
                    rec[c].state = "none" /\ handle[c].result = None)
            /\ (pc[c] \in {"returned", "raised"} =>
                    /\ handle[c].result # None
                    /\ (rec[c].state # "none") # FoundOwner(c)
                    /\ handle[c].result =
                          IF FoundOwner(c) THEN inv[c].unique_task_id ELSE c)

\* C5 as amended: a dispatch deferred in a transaction that aborts, or not
\* yet committed, sends nothing and reserves nothing; one deferred in a
\* transaction that commits ends either with exactly one new Dispatch Record
\* or exactly one dedup reference, bound into the Deferred Handle, or with
\* the error its trigger raises (the CeleryError of a unique task without a
\* stale time limit, or the error of the send), and then no record exists
\* and the handle stays unbound.
C5_OnCommit ==
    \A c \in Callers :
        OnCommit(c) =>
            /\ (pc[c] \in {"deferred", "aborted"} =>
                    /\ rec[c].state = "none"
                    /\ handle[c].result = None
                    /\ hooks[c] = <<"apply">>
                    /\ \A k \in Keys : cache[k] # c)
            /\ (pc[c] = "returned" =>
                    /\ handle[c].result # None
                    /\ (rec[c].state # "none") # FoundOwner(c)
                    /\ handle[c].result =
                          IF FoundOwner(c) THEN inv[c].unique_task_id ELSE c)
            /\ (pc[c] = "raised" =>
                    /\ err[c] \in {"CeleryError", "OperationalError"}
                    /\ rec[c].state = "none"
                    /\ handle[c].result = None)

\* C5 witness: one deferred dispatch was dropped by an abort, another was
\* committed and its new record is bound into its handle.
C5_Witness ==
    \E c, d \in Callers :
        /\ OnCommit(c) /\ pc[c] = "aborted" /\ rec[c].state = "none"
        /\ OnCommit(d) /\ pc[d] = "returned" /\ rec[d].state = "queued"
        /\ handle[d] = [kind |-> "deferred", result |-> d]

\* ------------------------------------------------------------------------
\* Claims about the handles (checked under SpecHandle)
\* ------------------------------------------------------------------------
\* The task id the trigger of caller c resolved: the owner's for a dedup
\* reference, its own for a new record.
Resolved(c) == IF FoundOwner(c) /\ is_async(c) THEN inv[c].unique_task_id ELSE c

\* What a Deferred Handle answers before and after it is bound.
DeferredAnswers(c) ==
    LET h == handle[c]
    IN  IF h.result = None
        THEN /\ wait[c].st \in {"none", "NotTriggered"}
             /\ OnCommit_task_id(h) = None
             /\ ~OnCommit_successful(h)
             /\ ~OnCommit_failed(h)
        ELSE /\ pc[c] = "returned"
             /\ OnCommit_task_id(h) = Resolved(c)
             /\ OnCommit_successful(h) = (rec[Resolved(c)].state = "success")
             /\ OnCommit_failed(h) = (rec[Resolved(c)].state = "failure")
             /\ OnCommit_state(h) = AsyncResult_state(Resolved(c))

\* What a call of get() on a Deferred Handle does: it raises
\* NotTriggeredCeleryError while the handle is unbound and enters the bound
\* wrapper's get afterwards.
DeferredGet(c) ==
    (handle[c].kind = "deferred" /\ wait[c].st \in {"none", "NotTriggered"}
     /\ wait'[c] # wait[c]) =>
        wait'[c].st = IF handle[c].result = None THEN "NotTriggered"
                      ELSE "blocked"

\* C6: get() on a Deferred Handle that is not yet bound raises the
\* not-yet-triggered error and never blocks; until it is bound the handle
\* reports no task id and neither success nor failure; once the deferred
\* dispatch has bound its result, get, state, successful, failed and task_id
\* answer for the bound reference.
C6_DeferredHandle ==
    /\ [](\A c \in Callers : handle[c].kind = "deferred" => DeferredAnswers(c))
    /\ [][\A c \in Callers : DeferredGet(c)]_vars

\* C6 witness: one caller's get() on its unbound Deferred Handle has raised,
\* and another's Deferred Handle is bound to a task that has succeeded and
\* its get() has returned.
C6_Witness ==
    \E c, d \in Callers :
        /\ handle[c] = [kind |-> "deferred", result |-> None]
        /\ wait[c].st = "NotTriggered"
        /\ handle[d].kind = "deferred" /\ handle[d].result # None
        /\ OnCommit_successful(handle[d])
        /\ wait[d].st = "done"

\* C7 as claimed: get(timeout) on a Bound Handle blocks no longer than the
\* timeout (with timeout 0 it does not block at all), and a timeout has run
\* on_invocation_timeout exactly once before the TimeoutError is raised.
C7_AsClaimed ==
    \A c \in Callers :
        /\ (handle[c].kind = "bound" /\ wait[c].st = "blocked"
             /\ wait[c].timeout # None =>
                wait[c].elapsed < wait[c].timeout)
        /\ (wait[c].st = "TimeoutError" =>
                Len(SelectSeq(hooks[c], LAMBDA x : x = "timeout")) = 1)

\* ------------------------------------------------------------------------
\* Claims about the time policy (checked under SpecTime)
\* ------------------------------------------------------------------------
\* C8: the eta among the options _trigger hands to the dispatch is
\* trigger_time + countdown when a countdown is given (also when an eta is
\* given as well), the given eta when only an eta is given, and trigger_time
\* when neither is; the countdown handed on is None, so no dispatch carries
\* both a countdown and an eta.
C8_EffectiveEta ==
    tp.done =>
        /\ (tp.countdown # None =>
                tp.options.eta = tp.trigger_time + tp.countdown)
        /\ (tp.countdown = None /\ tp.eta # None => tp.options.eta = tp.eta)
        /\ (tp.countdown = None /\ tp.eta = None =>
                tp.options.eta = tp.trigger_time)
        /\ tp.options.countdown = None

\* C8 witness: options resolved from both a positive countdown and an eta.
C8_Witness ==
    /\ tp.done
    /\ tp.countdown = 3 /\ tp.eta = 100 /\ tp.trigger_time = 1
    /\ tp.options.eta = 4
    /\ tp.options.countdown = None

\* The stale time limit is derivable: nothing explicit, no task default, a
\* time limit and a non-zero max queue-waiting time.
Derives ==
    /\ tp.stale_time_limit = None
    /\ tp.self.stale_time_limit = None
    /\ tp.options.time_limit # None
    /\ TruthyNum(tp.self.max_queue_waiting_time)

ListFormula ==
    (tp.options.time_limit + tp.self.max_queue_waiting_time)
        * Len(tp.self.default_retry_delays.v) + 1
    + SumSeq(tp.self.default_retry_delays.v)

FlatFormula ==
    (tp.options.time_limit + tp.self.max_queue_waiting_time
        + tp.self.default_retry_delay) * tp.self.max_retries
    + tp.options.time_limit + tp.self.max_queue_waiting_time

PlainFormula == tp.options.time_limit + tp.self.max_queue_waiting_time

\* The precedence every reading of C10 shares: the explicit value, then the
\* task-level default.
StalePrecedence ==
    /\ (tp.stale_time_limit # None =>
            tp.options.stale_time_limit = tp.stale_time_limit)
    /\ (tp.stale_time_limit = None /\ tp.self.stale_time_limit # None =>
            tp.options.stale_time_limit = tp.self.stale_time_limit)

\* C10 as claimed: after the explicit value and the task-level default, a
\* task with a fixed retry-delay list of N delays derives
\* (time_limit + max_queue_waiting_time) * N + 1 + sum(delays), one with a
\* flat retry policy (time_limit + max_queue_waiting_time + retry_delay) *
\* max_retries + time_limit + max_queue_waiting_time, any other
\* time_limit + max_queue_waiting_time.
C10_AsClaimed ==
    tp.done =>
        /\ StalePrecedence
        /\ (Derives =>
                tp.options.stale_time_limit =
                    IF TruthyList(tp.self.default_retry_delays) THEN ListFormula
                    ELSE IF tp.self.autoretry_for THEN FlatFormula
                    ELSE PlainFormula)

\* C10 as amended: the list formula is derived only for a task that has both
\* autoretry_for and a non-empty retry-delay list, the flat formula for a
\* task with autoretry_for and no such list, and time_limit +
\* max_queue_waiting_time for a task without autoretry_for, also when it has
\* a retry-delay list; nothing is derived without a time limit or with a
\* max queue-waiting time of None or 0.  With autoretry_for, time_limit 60,
\* max_queue_waiting_time 5 and delays [10, 20] the value is 161.
C10_StaleTimeLimit ==
    tp.done =>
        /\ StalePrecedence
        /\ (Derives =>
                tp.options.stale_time_limit =
                    IF tp.self.autoretry_for
                       /\ TruthyList(tp.self.default_retry_delays)
                    THEN ListFormula
                    ELSE IF tp.self.autoretry_for THEN FlatFormula
                    ELSE PlainFormula)
        /\ (tp.stale_time_limit = None /\ tp.self.stale_time_limit = None
             /\ ~Derives => tp.options.stale_time_limit = None)
        /\ (Derives /\ tp.self.autoretry_for /\ tp.options.time_limit = 60
             /\ tp.self.max_queue_waiting_time = 5
             /\ tp.self.default_retry_delays = ListOf(<<10, 20>>) =>
                tp.options.stale_time_limit = 161)

\* C10 witness: the example of the claim, derived with autoretry_for set.
C10_Witness ==
    /\ tp.done
    /\ Derives
    /\ tp.self.autoretry_for
    /\ tp.time_limit = 60
    /\ tp.self.max_queue_waiting_time = 5
    /\ tp.self.default_retry_delays = ListOf(<<10, 20>>)
    /\ tp.options.stale_time_limit = 161

\* ------------------------------------------------------------------------
\* Claims about the retry scheduler (checked under SpecRetry)
\* ------------------------------------------------------------------------
\* The retry eta: now + delay, an explicit eta used unchanged.
RetryEta ==
    /\ (rt.eta # None => rt.out.eta = rt.eta)
    /\ (rt.eta = None => rt.out.eta = rt.now + rt.out.countdown)

\* C9 as claimed: with a retry delay list L (the one passed to retry, else
\* the task's) and attempt count a, a < len(L) gives the delay L[a] and the
\* max-retries len(L), a >= len(L) gives no list-derived delay; the retry eta
\* is now + delay unless an explicit eta is given.
C9_AsClaimed ==
    rt.done =>
        LET L == IF rt.default_retry_delays.none
                 THEN rt.self.default_retry_delays.v
                 ELSE rt.default_retry_delays.v
        IN  /\ (rt.retries < Len(L) =>
                    /\ rt.out.countdown = L[rt.retries + 1]
                    /\ rt.out.max_retries = Len(L))
            /\ (Len(L) > 0 /\ rt.retries >= Len(L) => ~rt.out.list_delay)
            /\ RetryEta

\* The list decides the retry: a non-empty list is passed to retry(), or
\* neither eta nor countdown is passed and the task's list is non-empty.
ListDecides ==
    \/ TruthyList(rt.default_retry_delays)
    \/ (rt.eta = None /\ rt.countdown = None
        /\ TruthyList(rt.self.default_retry_delays))

\* C9 as amended: the list L in force is the one passed to retry() unless
\* that is None, else the task's.  When the list decides, a < len(L) gives
\* the delay L[a], a >= len(L) gives no list-derived delay (the flat
\* default_retry_delay is used when no eta is given, and the retry stops),
\* and the max-retries is len(L).  When it does not (an explicit eta or
\* countdown with only a task-level list), the delay is the explicit
\* countdown, else the flat delay when no eta is given, and the max-retries
\* is the one passed.  The retry eta is now + delay unless an explicit eta is
\* given, which is used unchanged.  L = [10, 30, 90] gives 10, 30, 90 for
\* attempts 0, 1, 2 and no list-derived delay for attempt 3.
C9_RetryDelay ==
    rt.done =>
        LET L == IF rt.default_retry_delays.none
                 THEN rt.self.default_retry_delays.v
                 ELSE rt.default_retry_delays.v
            flat == IF rt.eta = None THEN rt.self.default_retry_delay
                    ELSE None
        IN  /\ (ListDecides /\ rt.retries < Len(L) =>
                    /\ rt.out.list_delay
                    /\ rt.out.countdown = L[rt.retries + 1])
            /\ (ListDecides /\ rt.retries >= Len(L) =>
                    /\ ~rt.out.list_delay
                    /\ rt.out.countdown = flat
                    /\ rt.out.stops)
            /\ (ListDecides => rt.out.max_retries = Len(L))
            /\ (~ListDecides =>
                    /\ ~rt.out.list_delay
                    /\ rt.out.countdown =
                          IF rt.countdown # None THEN rt.countdown ELSE flat
                    /\ rt.out.max_retries = rt.max_retries)
            /\ RetryEta
            /\ (ListDecides /\ L = <<10, 30, 90>> =>
                    /\ (rt.retries = 0 => rt.out.countdown = 10)
                    /\ (rt.retries = 1 => rt.out.countdown = 30)
                    /\ (rt.retries = 2 => rt.out.countdown = 90)
                    /\ (rt.retries = 3 => ~rt.out.list_delay))

\* C9 witness: the third retry under the task's list [10, 30, 90].
C9_Witness ==
    /\ rt.done
    /\ rt.self.default_retry_delays = ListOf(<<10, 30, 90>>)
    /\ rt.default_retry_delays = NoList
    /\ rt.eta = None /\ rt.countdown = None
    /\ rt.retries = 2 /\ rt.now = 1
    /\ rt.out.countdown = 90 /\ rt.out.eta = 91
    /\ rt.out.max_retries = 3 /\ ~rt.out.stops

\* ------------------------------------------------------------------------
\* Claims about the task called (checked under SpecCall)
\* ------------------------------------------------------------------------
\* C11: a call of the task with no request context, or with one marked
\* called_directly, raises the CeleryError and runs neither on_task_start nor
\* the task body; through a worker's request context the first call runs
\* on_task_start and the body and every later call raises, so the body runs
\* at most once per request context.
C11_CallProtected ==
    \A r \in Requests :
        LET q == rq[r]
        IN  IF q.kind \in {"none", "direct"}
            THEN /\ q.starts = 0 /\ q.runs = 0
                 /\ Len(q.raised) = q.calls
                 /\ \A i \in 1 .. Len(q.raised) : q.raised[i] = "called directly"
            ELSE /\ q.runs <= 1
                 /\ q.starts = q.runs
                 /\ q.runs = (IF q.calls > 0 THEN 1 ELSE 0)
                 /\ q.protected = (q.calls > 0)
                 /\ Len(q.raised) = q.calls - q.runs
                 /\ \A i \in 1 .. Len(q.raised) : q.raised[i] = "protected"

\* C11 witness: a direct call has failed, and a worker's context has been
\* called twice: the body ran once and the second call was refused.
C11_Witness ==
    \E r, w \in Requests :
        /\ rq[r].kind = "direct" /\ rq[r].calls = 1
        /\ rq[r].raised = <<"called directly">> /\ rq[r].runs = 0
        /\ rq[w].kind = "worker" /\ rq[w].calls = 2
        /\ rq[w].runs = 1 /\ rq[w].raised = <<"protected">>

\* ------------------------------------------------------------------------
\* Claims about executions and retries (checked under SpecWorker)
\* ------------------------------------------------------------------------
\* C12 as claimed: the worker-side callbacks of a task come in pairs, one
\* pair for each execution attempt: on_task_start, then exactly one of
\* on_task_success, on_task_failure and on_task_retry -- on the attempt that
\* exhausts the retries too.
C12_AsClaimed ==
    \A t \in TaskIds :
        \A i \in 1 .. Len(rec[t].hooks) :
            (rec[t].hooks[i] = "start") <=> (i % 2 = 1)

\* C13 as claimed: once an owner has retried, the dedup entry that holds its
\* task id stays as it is until the entry expires (a step of the cache
\* alone, which changes no record) or the owner reaches success or failure.
C13_AsClaimed ==
    [][\A k \in Keys : \A t \in TaskIds :
          (cache[k] = t /\ rec[t].retries > 0 /\ cache'[k] # t) =>
              (rec' = rec \/ rec'[t].state \in {"success", "failure"})]_vars

\* ------------------------------------------------------------------------
\* Claims about the release of the key and the resolution loop (checked
\* under SpecLive)
\* ------------------------------------------------------------------------
\* A caller in the uniqueness resolution of _get_unique_task_id.
Resolving(c) == pc[c] \in {"reserve", "read"}

\* C14: the dedup entry of an owner, whether or not its task ever reports,
\* is eventually gone from the cache (its timeout, the stale time limit, is
\* never None), and a reserve made while the key is absent succeeds: the
\* caller owns the key and goes on to dispatch its own task.
C14_StaleRelease ==
    /\ \A k \in Keys : \A t \in TaskIds : (cache[k] = t) ~> (cache[k] # t)
    /\ [][\A c \in Callers :
            (pc[c] = "reserve" /\ cache[KeyOf(c)] = None /\ pc'[c] # pc[c]) =>
                (pc'[c] = "dispatch" /\ cache'[KeyOf(c)] = c)]_vars

\* C14 witness: the owner's task is still queued, never started, its entry
\* is gone, and a later invocation with the same arguments has reserved the
\* key and sent its own task.
C14_Witness ==
    \E t, d \in Callers :
        /\ t < d
        /\ inv[t].unique_task_id = t /\ rec[t].state = "queued"
        /\ inv[d].args = inv[t].args
        /\ inv[d].unique_task_id = d /\ cache[KeyOf(d)] = d
        /\ rec[d].state = "queued"

DerivedExpires ==
    IF tp.options.stale_time_limit # None /\ tp.options.time_limit # None
    THEN DatetimeExpires(tp.trigger_time
                         + (tp.options.stale_time_limit - tp.options.time_limit))
    ELSE NoExpires

\* C15 as claimed: the expiry among the options is the explicit expires when
\* one is passed, a number of seconds added to trigger_time and a datetime
\* unchanged; with none passed it is trigger_time + (stale_time_limit -
\* time_limit) when both limits are known and None otherwise.
C15_AsClaimed ==
    tp.done =>
        tp.options.expires =
            IF tp.expires.kind = "int"
            THEN DatetimeExpires(tp.trigger_time + tp.expires.v)
            ELSE IF tp.expires.kind = "datetime" THEN tp.expires
            ELSE DerivedExpires

\* C15 as amended: the expires in force is the one passed, else the task's
\* expires attribute.  A number of seconds is added to trigger_time and a
\* datetime is handed on unchanged; when there is neither the expiry is
\* trigger_time + (stale_time_limit - time_limit) if both limits are known
\* and None otherwise.
C15_Expires ==
    tp.done =>
        LET e == IF tp.expires = NoExpires THEN tp.self.expires ELSE tp.expires
        IN  tp.options.expires =
                IF e.kind = "int" THEN DatetimeExpires(tp.trigger_time + e.v)
                ELSE IF e.kind = "datetime" THEN e
                ELSE DerivedExpires

\* C15 witness: with no expires passed and none on the task, the limits 60
\* and 161 give the expiry trigger_time + 101.
C15_Witness ==
    /\ tp.done
    /\ tp.expires = NoExpires /\ tp.self.expires = NoExpires
    /\ tp.trigger_time = 1
    /\ tp.options.time_limit = 60 /\ tp.options.stale_time_limit = 161
    /\ tp.options.expires = DatetimeExpires(102)

\* The longest the attempts of a task can take from attempt a on, when each
\* waits max_queue_waiting_time in the queue and runs for time_limit, and
\* each retry is the one retry() schedules (its delay, until it stops).
RECURSIVE LongestRun(_, _, _)
LongestRun(self, time_limit, a) ==
    LET r == retry(self, a, None, None, None, NoList, 0)
    IN  time_limit + self.max_queue_waiting_time
        + (IF r.stops THEN 0
           ELSE r.countdown + LongestRun(self, time_limit, a + 1))

\* C16 as claimed: the stale time limit derived for a task that retries
\* automatically is at least the time its first attempt and all its
\* scheduled retries can take.
C16_AsClaimed ==
    (tp.done /\ Derives /\ tp.self.autoretry_for) =>
        tp.options.stale_time_limit
            >= LongestRun(tp.self, tp.options.time_limit, 0)

\* ------------------------------------------------------------------------
\* Claims about the deferral, the references and the invocation callbacks
\* (checked under Spec)
\* ------------------------------------------------------------------------
\* C18: while the dispatch of an invocation is deferred to the commit, that
\* invocation holds nothing: it has made no cache call, no dedup entry holds
\* its task id, no record of it exists, and no other invocation has been
\* resolved to its task id, so an identical invocation made meanwhile is
\* not deduplicated against it.
C18_NothingHeld ==
    \A c \in Callers :
        pc[c] = "deferred" =>
            /\ inv[c].tries = 0
            /\ inv[c].unique_task_id = None
            /\ \A k \in Keys : cache[k] # c
            /\ rec[c].state = "none"
            /\ \A d \in Callers : inv[d].unique_task_id # c

\* C18 witness: while one invocation of a unique task waits for its commit,
\* an identical one made after it has reserved the key for itself and sent
\* its own task.
C18_Witness ==
    \E c, d \in Callers :
        /\ c < d
        /\ pc[c] = "deferred"
        /\ inv[d].args = inv[c].args
        /\ inv[d].unique_task_id = d /\ cache[KeyOf(d)] = d
        /\ rec[d].state = "queued" /\ pc[d] = "returned"

\* C19 as claimed: the task id of a handle returned as a dedup reference is
\* the id of a Dispatch Record that has been sent.
C19_AsClaimed ==
    \A c \in Callers :
        (FoundOwner(c) /\ is_async(c) /\ pc[c] = "returned") =>
            rec[handle[c].result].state # "none"

\* How often callback h has been run for the invocation of caller c.
Count(c, h) == Len(SelectSeq(hooks[c], LAMBDA x : x = h))

\* C20 as claimed: on_invocation_apply is run once and first; an invocation
\* whose trigger has returned has run exactly one of on_invocation_trigger
\* and on_invocation_unique, and none runs both; on_invocation_trigger has
\* been run only for a task that was sent.
C20_AsClaimed ==
    \A c \in Callers :
        /\ (inv[c].mode # "none" =>
                hooks[c][1] = "apply" /\ Count(c, "apply") = 1)
        /\ Count(c, "trigger") + Count(c, "unique") <= 1
        /\ (pc[c] = "returned" =>
                Count(c, "trigger") + Count(c, "unique") = 1)
        /\ (Count(c, "trigger") = 1 => rec[c].state # "none")

\* ------------------------------------------------------------------------
\* Claims about the skipped uniqueness resolution (checked under SpecAll)
\* ------------------------------------------------------------------------
\* The uniqueness resolution is skipped: the task is not unique, or the
\* application is always eager.
Skipped == (~task.unique) \/ task.always_eager

\* No cache.add and no cache.get is made for any invocation, no invocation
\* is returned a dedup reference, and the handle of one that returned is to
\* its own task, which has been dispatched.
NoResolution ==
    \A c \in Callers :
        /\ ~Resolving(c)
        /\ inv[c].tries = 0
        /\ inv[c].unique_task_id = None
        /\ Count(c, "unique") = 0
        /\ handle[c].result \in {None, c}
        /\ (pc[c] = "returned" =>
                handle[c].result = c /\ rec[c].state # "none")

\* C21 as claimed: for a task that is not unique, or in an eager
\* application, no reserve or read is made, no invocation is returned a
\* dedup reference, and every invocation is dispatched under its own task
\* id: the uniqueness of the task never makes it fail.  For a task that is
\* not unique the cache stays as it was.
C21_AsClaimed ==
    Skipped =>
        /\ NoResolution
        /\ \A c \in Callers : err[c] # "CeleryError"
        /\ (~task.unique => (\A k \in Keys : cache[k] = None) /\ ~foreign)

\* C21 as amended: for a task that is not unique, or in an eager
\* application, no reserve or read is made and no invocation is returned a
\* dedup reference; an invocation is dispatched under its own task id,
\* except that the invocation of a unique task for which no stale time limit
\* resolves raises the CeleryError, in an eager application too, and is not
\* dispatched.  For a task that is not unique no apply, success, failure
\* or retry adds or deletes a cache entry.
C21_Skipped ==
    Skipped =>
        /\ NoResolution
        /\ \A c \in Callers :
              /\ (err[c] = "CeleryError" <=>
                    (Unresolvable(c) /\ pc[c] = "raised"))
              /\ (err[c] = "CeleryError" => rec[c].state = "none")
              /\ (Unresolvable(c) => pc[c] \in {"deferred", "aborted", "raised"})
        /\ (\A k \in Keys : cache[k] = None) /\ ~foreign

\* C21 witness: in an eager application two invocations of a unique task
\* with the same arguments have both run under their own task ids, the
\* first of them after a retry.
C21_Witness ==
    \E c, d \in Callers :
        /\ c < d
        /\ task.unique /\ task.always_eager
        /\ inv[c].args = inv[d].args
        /\ rec[c].state = "success" /\ rec[c].retries = 1
        /\ rec[d].state = "success"
        /\ handle[c].result = c /\ handle[d].result = d

====
